---- MODULE Spec2Model ----
(***************************************************************************)
(* Model of the food-delivery ordering bot: the YAML store behind          *)
(* DataManager (utils/data_manager.py), the customer handlers              *)
(* (handlers/user_handlers.py), the admin order handlers                   *)
(* (handlers/admin_handlers.py) and the pricing helpers                    *)
(* (handlers/order_handlers.py).                                           *)
(*                                                                         *)
(* Money is in whole roubles.  Product prices in the model are multiples   *)
(* of 100, so that Python's true division in `order_total * percent / 100` *)
(* is exact and equals the integer division used here.                     *)
(* Time is in minutes; a day has 1440 of them.                             *)
(***************************************************************************)
EXTENDS Integers, Sequences, FiniteSets, TLC

VARIABLES
    orders,       \* orders.yaml      -> 'orders'     (list of dicts)
    users,        \* users.yaml       -> 'users'      (list of dicts)
    products,     \* products.yaml    -> 'products'   (list of dicts)
    promocodes,   \* promocodes.yaml  -> 'promocodes' (list of dicts)
    statistics,   \* settings.yaml    -> 'statistics'
    user_data,    \* context.user_data of every chat user
    chat,         \* per chat user: conversation state and keyboards on screen
    now,          \* datetime.now()
    pressed,      \* per order id: the status button an admin pressed last
    pc,           \* per thread: position inside a DataManager call
    call,         \* per thread: the DataManager call being executed
    loc,          \* per thread: the locals of that call
    ret           \* the function called directly last: arguments and return value

vars == <<orders, users, products, promocodes, statistics, user_data, chat,
          now, pressed, pc, call, loc, ret>>

store_vars   == <<orders, users, products, promocodes, statistics>>
thread_vars  == <<pc, call, loc>>

----------------------------------------------------------------------------
(* Bounds of the model *)

MaxOrders == 2        \* orders created in one behaviour
MaxCart   == 1        \* items (sum of quantities) a cart holds

(* Python's None, for text-valued and for number-valued fields *)
NoneStr == "None"
NoneInt == -1

Users    == {1, 2}    \* telegram ids of the chat users
Threads  == {1, 2}

(* config.yaml: bot.admin_ids and the delivery section *)
admin_ids          == {2}
min_order_amount   == 500
free_delivery_from == 1500
delivery_cost_cfg  == 200
working_hours      == [start |-> <<10, 0>>, end |-> <<23, 0>>]

(* The moments the clock takes: day 1 12:00 and day 2 23:30 *)
Times == {2160, 4290}

----------------------------------------------------------------------------
(* Generic helpers *)

RECURSIVE SumSeq(_)
SumSeq(s) == IF s = <<>> THEN 0 ELSE Head(s) + SumSeq(Tail(s))

MaxOf(S, default) == IF S = {} THEN default
                     ELSE CHOOSE m \in S : \A x \in S : x <= m

Min(a, b) == IF a <= b THEN a ELSE b

(* next((x for x in s if P(x)), None): index of the first match, 0 if none *)
FirstIndex(s, P(_)) ==
    IF \E i \in 1..Len(s) : P(s[i])
    THEN CHOOSE i \in 1..Len(s) : P(s[i]) /\ \A j \in 1..(i-1) : ~P(s[j])
    ELSE 0

(* x * 0.01 rounded to the nearest integer, not truncated *)
IntHundredth_rounded(x) == (x + 50) \div 100

(* int(x * 0.01) for an integer x: truncation towards zero of x / 100 *)
IntHundredth(x) == IF x >= 0 THEN x \div 100 ELSE 0 - ((0 - x) \div 100)

----------------------------------------------------------------------------
(* str.upper() on the texts that occur as promo codes or as user input *)

Texts == {"SALE10", "sale10", "FIX500", "fix500", "MEGA150", "mega150", "NOPE"}

Upper(t) ==
    CASE t \in {"SALE10", "sale10"}   -> "SALE10"
      [] t \in {"FIX500", "fix500"}   -> "FIX500"
      [] t \in {"MEGA150", "mega150"} -> "MEGA150"
      [] OTHER                        -> t

----------------------------------------------------------------------------
(* Order statuses and the admin's status buttons *)

Statuses == {"new", "accepted", "preparing", "on_the_way", "delivered", "cancelled"}

(* str.split('_') of a status code *)
SplitUnderscore(status) ==
    IF status = "on_the_way" THEN <<"on", "the", "way">> ELSE <<status>>

(* callback_data=f"set_status_{order_id}_{status_code}", split at '_' *)
set_status_parts(order_id, status_code) ==
    <<"set", "status", order_id>> \o SplitUnderscore(status_code)

----------------------------------------------------------------------------
(* DataManager: users *)

(* get_user: position of the first user with that telegram_id, 0 for None *)
get_user(us, telegram_id) ==
    FirstIndex(us, LAMBDA u : u.telegram_id = telegram_id)

(* create_user.  username, first_name and created_at are display data and *)
(* are left out of the record.                                            *)
create_user(us, telegram_id) ==
    IF get_user(us, telegram_id) # 0 THEN us
    ELSE Append(us, [telegram_id  |-> telegram_id,
                     phone        |-> NoneStr,
                     addresses    |-> <<>>,
                     bonus_points |-> 0,
                     total_orders |-> 0])

(* dict.update(updates) *)
DictUpdate(d, updates) ==
    [k \in DOMAIN d |-> IF k \in DOMAIN updates THEN updates[k] ELSE d[k]]

update_user(us, telegram_id, updates) ==
    LET i == get_user(us, telegram_id)
    IN  IF i = 0 THEN us ELSE [us EXCEPT ![i] = DictUpdate(us[i], updates)]

add_bonus_points(us, telegram_id, points) ==
    LET i == get_user(us, telegram_id)
    IN  IF i = 0 THEN us
        ELSE update_user(us, telegram_id,
                         [bonus_points |-> us[i].bonus_points + points])

----------------------------------------------------------------------------
(* DataManager: products *)

get_product(ps, product_id) ==
    FirstIndex(ps, LAMBDA p : p.id = product_id)

(* the next id taken from the number of products, not from their ids *)
next_product_id_by_count(ps) == Len(ps) + 1

next_product_id(ps) == MaxOf({ps[i].id : i \in 1..Len(ps)}, 0) + 1

add_product(ps, product) ==
    Append(ps, [product EXCEPT !.id = next_product_id(ps)])

----------------------------------------------------------------------------
(* DataManager: orders *)

get_order(os, order_id) ==
    FirstIndex(os, LAMBDA o : o.id = order_id)

next_order_id(os) == MaxOf({os[i].id : i \in 1..Len(os)}, 0) + 1

(* the record create_order appends: order_data plus id, status, created_at; *)
(* delivered_at is absent until update_order_status stamps it               *)
new_order(os, order_data, t) ==
    [id            |-> next_order_id(os),
     user_id       |-> order_data.user_id,
     items         |-> order_data.items,
     subtotal      |-> order_data.subtotal,
     delivery_cost |-> order_data.delivery_cost,
     discount      |-> order_data.discount,
     promo_code    |-> order_data.promo_code,
     total         |-> order_data.total,
     status        |-> "new",
     created_at    |-> t,
     delivered_at  |-> NoneInt]

(* _update_statistics; average_order is total_revenue / total_orders *)
update_statistics(stats, order_total) ==
    [total_orders  |-> stats.total_orders + 1,
     total_revenue |-> stats.total_revenue + order_total]

(* the user statistics part of create_order *)
create_order_users(us, order_data) ==
    LET i == get_user(us, order_data.user_id)
    IN  IF i = 0 THEN us
        ELSE LET us1   == update_user(us, order_data.user_id,
                              [total_orders |-> us[i].total_orders + 1])
                 bonus == IntHundredth(order_data.total)
             IN  IF bonus > 0
                 THEN add_bonus_points(us1, order_data.user_id, bonus)
                 ELSE us1

(* create_order on the whole store st, at time t *)
create_order(st, order_data, t) ==
    [st EXCEPT !.orders     = Append(st.orders, new_order(st.orders, order_data, t)),
               !.users      = create_order_users(st.users, order_data),
               !.statistics = update_statistics(st.statistics, order_data.total)]

(* update_order_status that stamps delivered_at whatever the status is *)
(* an update that writes the status into every order, whatever its id *)
update_order_status_every_order(os, order_id, status, t) ==
    [i \in 1..Len(os) |-> [os[i] EXCEPT !.status = status]]

update_order_status_stamps_every_status(os, order_id, status, t) ==
    LET i == get_order(os, order_id)
    IN  IF i = 0 THEN os
        ELSE [os EXCEPT ![i] = [@ EXCEPT !.status = status, !.delivered_at = t]]

update_order_status(os, order_id, status, t) ==
    LET i == get_order(os, order_id)
    IN  IF i = 0 THEN os
        ELSE [os EXCEPT ![i] =
                 [@ EXCEPT !.status = status,
                           !.delivered_at = IF status = "delivered" THEN t ELSE @]]

----------------------------------------------------------------------------
(* DataManager: promo codes.  expiry_date is a day number; strptime of it *)
(* is midnight at the start of that day.                                  *)

get_promocode(prs, code) ==
    FirstIndex(prs, LAMBDA p : Upper(p.code) = Upper(code))

(* check_promocode: position of the promo it returns, 0 for None *)
check_promocode(prs, code, order_total, t) ==
    LET i == FirstIndex(prs, LAMBDA p : Upper(p.code) = Upper(code) /\ p.active)
    IN  IF i = 0 THEN 0
        ELSE IF order_total < prs[i].min_order THEN 0
        ELSE IF t > prs[i].expiry_date * 1440 THEN 0
        ELSE IF prs[i].max_uses # NoneInt /\ prs[i].current_uses >= prs[i].max_uses
             THEN 0
        ELSE i

(* calculate_discount whose fixed branch forgets the order total *)
calculate_discount_uncapped(promo, order_total) ==
    IF promo.discount_percent # 0
    THEN (order_total * promo.discount_percent) \div 100
    ELSE promo.discount_fixed

(* a missing or zero discount_percent / discount_fixed is falsy *)
calculate_discount(promo, order_total) ==
    IF promo.discount_percent # 0
    THEN (order_total * promo.discount_percent) \div 100
    ELSE IF promo.discount_fixed # 0
    THEN Min(promo.discount_fixed, order_total)
    ELSE 0

(* use_promocode without the test of the code: every promo is counted *)
use_promocode_every_code(prs, code) ==
    [k \in 1..Len(prs) |-> [prs[k] EXCEPT !.current_uses = @ + 1]]

use_promocode(prs, code) ==
    LET i == get_promocode(prs, code)
    IN  IF i = 0 THEN prs
        ELSE [prs EXCEPT ![i].current_uses = @ + 1]

add_promocode(prs, promo_data) == Append(prs, promo_data)

update_promocode(prs, code, updates) ==
    LET i == get_promocode(prs, code)
    IN  IF i = 0 THEN prs ELSE [prs EXCEPT ![i] = DictUpdate(prs[i], updates)]

----------------------------------------------------------------------------
(* order_handlers.py: pricing and validation helpers *)

cart_subtotal(cart) ==
    SumSeq([i \in 1..Len(cart) |-> cart[i].price * cart[i].quantity])

(* totals whose total is left negative when the discount exceeds the rest *)
calculate_order_totals_unclamped(cart, delivery_cost, discount) ==
    [subtotal      |-> cart_subtotal(cart),
     delivery_cost |-> delivery_cost,
     discount      |-> discount,
     total         |-> cart_subtotal(cart) + delivery_cost - discount]

calculate_order_totals(cart, delivery_cost, discount) ==
    LET subtotal == cart_subtotal(cart)
        total    == subtotal + delivery_cost - discount
    IN  [subtotal      |-> subtotal,
         delivery_cost |-> delivery_cost,
         discount      |-> discount,
         total         |-> IF total > 0 THEN total ELSE 0]

get_delivery_cost(subtotal) ==
    IF subtotal >= free_delivery_from THEN 0 ELSE delivery_cost_cfg

(* datetime.strptime(s, '%H:%M').time() as minutes after midnight; *)
(* -1 stands for the ValueError of a text that is no time           *)
strptime_HM(s) ==
    IF Len(s) = 2 /\ s[1] \in 0..23 /\ s[2] \in 0..59
    THEN s[1] * 60 + s[2]
    ELSE 0 - 1

(* is_order_within_working_hours without the overnight branch *)
is_order_within_working_hours_no_wrap(hours, t) ==
    LET start_time   == strptime_HM(hours.start)
        end_time     == strptime_HM(hours.end)
        current_time == t % 1440
    IN  IF start_time < 0 \/ end_time < 0 THEN TRUE
        ELSE start_time <= current_time /\ current_time <= end_time

is_order_within_working_hours(hours, t) ==
    LET start_time   == strptime_HM(hours.start)
        end_time     == strptime_HM(hours.end)
        current_time == t % 1440
    IN  IF start_time < 0 \/ end_time < 0 THEN TRUE
        ELSE IF start_time <= end_time
             THEN start_time <= current_time /\ current_time <= end_time
             ELSE current_time >= start_time \/ current_time <= end_time

(* validate_order that looks at the working hours before the minimum *)
validate_order_hours_first(cart, min_order, hours, t) ==
    IF cart = <<>> THEN "EmptyCart"
    ELSE IF ~is_order_within_working_hours(hours, t) THEN "OutsideHours"
    ELSE IF cart_subtotal(cart) < min_order THEN "BelowMinimum"
    ELSE "ok"

(* validate_order(cart, config) at time t, with min_order and hours the *)
(* delivery.min_order_amount and delivery.working_hours of config       *)
validate_order(cart, min_order, hours, t) ==
    IF cart = <<>> THEN "EmptyCart"
    ELSE IF cart_subtotal(cart) < min_order THEN "BelowMinimum"
    ELSE IF ~is_order_within_working_hours(hours, t) THEN "OutsideHours"
    ELSE "ok"

----------------------------------------------------------------------------
(* State after start-up *)

(* the whole YAML store as one value, and its assignment to the variables *)
Store == [orders |-> orders, users |-> users, products |-> products,
          promocodes |-> promocodes, statistics |-> statistics]

SetStore(st) ==
    /\ orders'     = st.orders
    /\ users'      = st.users
    /\ products'   = st.products
    /\ promocodes' = st.promocodes
    /\ statistics' = st.statistics

(* products.yaml as shipped to the model: two available products *)
InitProducts ==
    << [id |-> 1, name |-> "roll", description |-> "roll", price |-> 300,  available |-> TRUE],
       [id |-> 2, name |-> "set",  description |-> "set",  price |-> 1000, available |-> TRUE] >>

(* promocodes.yaml as shipped to the model *)
InitPromocodes ==
    << [code |-> "SALE10", discount_percent |-> 10, discount_fixed |-> 0,
        min_order |-> 500, expiry_date |-> 2, max_uses |-> 1,
        current_uses |-> 0, active |-> TRUE],
       [code |-> "FIX500", discount_percent |-> 0, discount_fixed |-> 500,
        min_order |-> 0, expiry_date |-> 9, max_uses |-> NoneInt,
        current_uses |-> 0, active |-> TRUE],
       [code |-> "MEGA150", discount_percent |-> 150, discount_fixed |-> 0,
        min_order |-> 0, expiry_date |-> 9, max_uses |-> NoneInt,
        current_uses |-> 0, active |-> TRUE] >>

(* context.user_data of a user who has not used the bot yet: every key is *)
(* read with .get(key, default), so a missing key is its default          *)
EmptyUserData ==
    [cart             |-> <<>>,
     current_quantity |-> 1,
     order_subtotal   |-> 0,
     delivery_cost    |-> 0,
     order_total      |-> 0,
     discount         |-> 0,
     promo_code       |-> NoneStr,
     admin_product_id |-> 0]

(* what the chat of a user shows: the keyboards sent to it and the answer *)
(* to the last "reorder" or admin button; waiting holds the admin        *)
(* conversations (price_conv, desc_conv) that wait for a text of the user *)
InitChat == [kbd |-> {}, answer |-> "none", waiting |-> {}]

(* users.yaml after the customer with telegram id 1 has sent /start *)
InitUsers == create_user(<<>>, 1)

InitStore ==
    /\ orders     = <<>>
    /\ users      = InitUsers
    /\ products   = InitProducts
    /\ promocodes = InitPromocodes
    /\ statistics = [total_orders |-> 0, total_revenue |-> 0]

(* a DataManager call a thread makes: the method and its arguments *)
NoCall == [op |-> "none", order_data |-> <<>>, telegram_id |-> 0,
           points |-> 0, updates |-> <<>>]

(* the local variables of a thread inside a DataManager method: the       *)
(* collection it loaded, the settings it loaded, the updates dict it      *)
(* passes to update_user, where create_order is, the order_id it returns  *)
NoLocals == [data |-> <<>>, settings |-> <<>>, updates |-> <<>>,
             phase |-> "none", order_id |-> 0]

(* no function was called directly yet; value is <<v>> for a returned v *)
(* and <<>> for None                                                    *)
NoReturn == [fn |-> "none", args |-> <<>>, value |-> <<>>]

InitThreads ==
    /\ pc   = [t \in Threads |-> "idle"]
    /\ call = [t \in Threads |-> NoCall]
    /\ loc  = [t \in Threads |-> NoLocals]
    /\ ret  = NoReturn

Init ==
    /\ InitStore
    /\ user_data = [u \in Users |-> EmptyUserData]
    /\ chat      = [u \in Users |-> InitChat]
    /\ now \in Times
    /\ pressed   = [o \in 1..(MaxOrders + 1) |-> "none"]
    /\ InitThreads

----------------------------------------------------------------------------
(* Customer handlers (user_handlers.py) *)

Tick ==
    /\ \E t \in Times : t > now /\ now' = t
    /\ UNCHANGED <<store_vars, user_data, chat, pressed, thread_vars, ret>>

start_command(u) ==
    /\ users' = create_user(users, u)
    /\ UNCHANGED <<orders, products, promocodes, statistics, user_data, chat,
                   now, pressed, thread_vars, ret>>

(* the cart after add_to_cart_callback put `quantity` of product p into it *)
cart_add(cart, p, quantity) ==
    LET i == FirstIndex(cart, LAMBDA item : item.product_id = p.id)
    IN  IF i # 0
        THEN [cart EXCEPT ![i].quantity = @ + quantity]
        ELSE Append(cart, [product_id   |-> p.id,
                           product_name |-> p.name,
                           price        |-> p.price,
                           quantity     |-> quantity])

cart_quantity(cart) == SumSeq([k \in 1..Len(cart) |-> cart[k].quantity])

(* the cart of u stays within `bound` items when current_quantity more *)
(* are added to it                                                      *)
cart_fits(u, bound) ==
    cart_quantity(user_data[u].cart) + user_data[u].current_quantity <= bound

add_to_cart_callback(u, product_id) ==
    LET i    == get_product(products, product_id)
        cart == cart_add(user_data[u].cart, products[i],
                         user_data[u].current_quantity)
    IN  /\ i # 0
        /\ user_data' = [user_data EXCEPT ![u].cart = cart]
        /\ UNCHANGED <<store_vars, chat, now, pressed, thread_vars, ret>>

clear_cart_callback(u) ==
    /\ user_data[u].cart # <<>>
    /\ user_data' = [user_data EXCEPT ![u].cart = <<>>]
    /\ UNCHANGED <<store_vars, chat, now, pressed, thread_vars, ret>>

(* the keys checkout_callback stores; it leaves promo_code as it is *)
checkout_user_data(ud) ==
    LET total         == cart_subtotal(ud.cart)
        delivery_cost == IF total < free_delivery_from
                         THEN delivery_cost_cfg ELSE 0
    IN  [ud EXCEPT !.order_subtotal = total,
                   !.delivery_cost  = delivery_cost,
                   !.order_total    = total + delivery_cost,
                   !.discount       = 0]

checkout_callback(u) ==
    /\ user_data[u].cart # <<>>
    /\ cart_subtotal(user_data[u].cart) >= min_order_amount
    /\ user_data' = [user_data EXCEPT ![u] = checkout_user_data(@)]
    /\ chat' = [chat EXCEPT ![u].kbd = @ \cup {"checkout"}]
    /\ UNCHANGED <<store_vars, now, pressed, thread_vars, ret>>

(* the keys receive_promocode stores when check_promocode returned promo *)
promo_user_data(ud, promo, code) ==
    LET discount == calculate_discount(promo, ud.order_subtotal)
    IN  [ud EXCEPT !.discount    = discount,
                   !.promo_code  = code,
                   !.order_total = ud.order_subtotal + ud.delivery_cost - discount]

(* receive_promocode handles a text only in the WAITING_PROMOCODE state of  *)
(* the conversation, entered with the "apply_promocode" button of the      *)
(* checkout keyboard (apply_promocode_callback, which stores nothing else) *)
receive_promocode(u, text) ==
    LET code == Upper(text)
        i    == check_promocode(promocodes, code, user_data[u].order_subtotal, now)
    IN  /\ "checkout" \in chat[u].kbd
        /\ user_data' = IF i # 0
                        THEN [user_data EXCEPT ![u] =
                                  promo_user_data(@, promocodes[i], code)]
                        ELSE user_data
        /\ UNCHANGED <<store_vars, chat, now, pressed, thread_vars, ret>>

(* confirm_order_callback shows the payment keyboard.  Its check of the    *)
(* delivery_address and phone keys is not modelled: the conversation that  *)
(* fills them (receive_address, receive_phone) touches no other key.       *)
confirm_order_callback(u) ==
    /\ "checkout" \in chat[u].kbd
    /\ "payment" \notin chat[u].kbd
    /\ chat' = [chat EXCEPT ![u].kbd = @ \cup {"payment"}]
    /\ UNCHANGED <<store_vars, user_data, now, pressed, thread_vars, ret>>

(* order_data as payment_method_callback builds it from context.user_data *)
order_data_of(u, ud) ==
    [user_id       |-> u,
     items         |-> ud.cart,
     subtotal      |-> ud.order_subtotal,
     delivery_cost |-> ud.delivery_cost,
     discount      |-> ud.discount,
     promo_code    |-> ud.promo_code,
     total         |-> ud.order_total]

(* the store after payment_method_callback: create_order, then use_promocode *)
payment_store(st, u, ud, t) ==
    LET st1 == create_order(st, order_data_of(u, ud), t)
    IN  IF ud.promo_code # NoneStr
        THEN [st1 EXCEPT !.promocodes = use_promocode(@, ud.promo_code)]
        ELSE st1

(* what context.bot.send_message does: it sends, or raises because the *)
(* recipient cannot be reached                                         *)
SendOutcomes == {"sent", "raised"}

(* notify_admins_new_order: for each admin, try: send_message(...)    *)
(* except Exception: pass; how the function ends                      *)
notify_admins_new_order(send) ==
    IF send = "raised" THEN "returned" ELSE "returned"

(* a notifying function that lets the exception of send_message out *)
notify_customer_status_change_propagates(send) ==
    IF send = "raised" THEN "raised" ELSE "returned"

(* notify_customer_status_change: try: send_message(...) except *)
(* Exception: pass; how the function ends                        *)
notify_customer_status_change(send) ==
    IF send = "raised" THEN "returned" ELSE "returned"

(* payment_method_callback; send is the outcome of the send_message to *)
(* the admin in notify_admins_new_order, its last step                 *)
payment_method_callback(u, send) ==
    /\ "payment" \in chat[u].kbd
    /\ Len(orders) < MaxOrders
    /\ SetStore(payment_store(Store, u, user_data[u], now))
    /\ user_data' = [user_data EXCEPT ![u].cart = <<>>,
                                      ![u].discount = 0,
                                      ![u].promo_code = NoneStr]
    /\ ret' = [fn    |-> "notify_admins_new_order",
               args  |-> <<next_order_id(orders), send>>,
               value |-> <<notify_admins_new_order(send)>>]
    /\ UNCHANGED <<chat, now, pressed, thread_vars>>

(* cancel_order_callback with 'delivered' missing from the tuple it tests *)
cancel_allowed_without_delivered(status) ==
    status \notin {"on_the_way", "cancelled"}

cancel_allowed(status) == status \notin {"on_the_way", "delivered", "cancelled"}

cancel_order_callback(u, order_id) ==
    LET i == get_order(orders, order_id)
    IN  /\ i # 0
        /\ cancel_allowed(orders[i].status)
        /\ orders' = update_order_status(orders, order_id, "cancelled", now)
        /\ pressed' = [pressed EXCEPT ![order_id] = "none"]
        /\ UNCHANGED <<users, products, promocodes, statistics, user_data, chat,
                       now, thread_vars, ret>>

(* product_callback: the product page, with the quantity to add back at 1 *)
product_callback(u, product_id) ==
    /\ get_product(products, product_id) # 0
    /\ user_data' = [user_data EXCEPT ![u].current_quantity = 1]
    /\ UNCHANGED <<store_vars, chat, now, pressed, thread_vars, ret>>

(* the quantity buttons of the product page: "minus" or "plus" *)
quantity_callback(u, button) ==
    LET current_qty == user_data[u].current_quantity
    IN  /\ user_data' = [user_data EXCEPT ![u].current_quantity =
                            IF button = "minus" /\ current_qty > 1
                            THEN current_qty - 1
                            ELSE IF button = "plus" /\ current_qty < 99
                            THEN current_qty + 1
                            ELSE current_qty]
        /\ UNCHANGED <<store_vars, chat, now, pressed, thread_vars, ret>>

(* list.remove(item): the list without its first element equal to item *)
ListRemove(s, item) ==
    LET i == FirstIndex(s, LAMBDA x : x = item)
    IN  IF i = 0 THEN s
        ELSE [k \in 1..(Len(s) - 1) |-> IF k < i THEN s[k] ELSE s[k + 1]]

(* cart_modify that keeps a line whose quantity went down to 0 *)
cart_modify_keeps_zero(cart, button, product_id) ==
    LET i == FirstIndex(cart, LAMBDA item : item.product_id = product_id)
    IN  IF button = "remove_from_cart"
        THEN SelectSeq(cart, LAMBDA item : item.product_id # product_id)
        ELSE IF i = 0 THEN cart
        ELSE [cart EXCEPT ![i].quantity =
                  IF button = "cart_minus" THEN @ - 1 ELSE @ + 1]

(* the cart after the button "cart_minus", "cart_plus" or *)
(* "remove_from_cart" of product_id                        *)
cart_modify(cart, button, product_id) ==
    LET i == FirstIndex(cart, LAMBDA item : item.product_id = product_id)
    IN  IF button = "remove_from_cart"
        THEN SelectSeq(cart, LAMBDA item : item.product_id # product_id)
        ELSE IF i = 0 THEN cart
        ELSE IF button = "cart_minus"
        THEN LET c1 == [cart EXCEPT ![i].quantity = @ - 1]
             IN  IF c1[i].quantity <= 0 THEN ListRemove(c1, c1[i]) ELSE c1
        ELSE [cart EXCEPT ![i].quantity = @ + 1]

cart_modify_callback(u, button, product_id) ==
    /\ user_data' = [user_data EXCEPT ![u].cart =
                        cart_modify(@, button, product_id)]
    /\ UNCHANGED <<store_vars, chat, now, pressed, thread_vars, ret>>

(* the cart of reorder_callback with the prices recorded in the order *)
RECURSIVE reorder_cart_order_price(_, _)
reorder_cart_order_price(items, ps) ==
    IF items = <<>> THEN <<>>
    ELSE LET item == Head(items)
             i    == get_product(ps, item.product_id)
             rest == reorder_cart_order_price(Tail(items), ps)
         IN  IF i # 0 /\ ps[i].available THEN <<item>> \o rest ELSE rest

(* the cart reorder_callback builds from the items of an order *)
RECURSIVE reorder_cart(_, _)
reorder_cart(items, ps) ==
    IF items = <<>> THEN <<>>
    ELSE LET item == Head(items)
             i    == get_product(ps, item.product_id)
             rest == reorder_cart(Tail(items), ps)
         IN  IF i # 0 /\ ps[i].available
             THEN <<[product_id   |-> item.product_id,
                     product_name |-> item.product_name,
                     price        |-> ps[i].price,
                     quantity     |-> item.quantity]>> \o rest
             ELSE rest

(* reorder_callback; the cart is emptied before the items are looked at, *)
(* so the "not available" answer leaves an empty cart                     *)
reorder_callback(u, order_id) ==
    LET i    == get_order(orders, order_id)
        cart == reorder_cart(orders[i].items, products)
    IN  /\ IF i = 0
           THEN /\ chat' = [chat EXCEPT ![u].answer = "not_found"]
                /\ user_data' = user_data
           ELSE /\ user_data' = [user_data EXCEPT ![u].cart = cart]
                /\ chat' = [chat EXCEPT ![u].answer =
                               IF cart = <<>> THEN "unavailable" ELSE "added"]
        /\ UNCHANGED <<store_vars, now, pressed, thread_vars, ret>>

----------------------------------------------------------------------------
(* Admin handlers (admin_handlers.py) *)

(* a check that lets every user through *)
is_admin_everyone(user_id) == TRUE

is_admin(user_id) == user_id \in admin_ids

(* new_status = parts[3] of the split callback data *)
parsed_status(order_id, status_code) ==
    set_status_parts(order_id, status_code)[4]

(* set_order_status_callback; send is the outcome of the send_message to *)
(* the customer in notify_customer_status_change, after the status was   *)
(* stored.  A user who is not an admin gets the answer "access denied"   *)
(* and nothing else.                                                     *)
set_order_status_callback(u, order_id, status_code, send) ==
    IF ~is_admin(u)
    THEN /\ chat' = [chat EXCEPT ![u].answer = "denied"]
         /\ UNCHANGED <<store_vars, user_data, now, pressed, thread_vars, ret>>
    ELSE /\ get_order(orders, order_id) # 0
         /\ orders' = update_order_status(orders, order_id,
                                          parsed_status(order_id, status_code), now)
         /\ pressed' = [pressed EXCEPT ![order_id] = status_code]
         /\ ret' = [fn    |-> "notify_customer_status_change",
                    args  |-> <<order_id, parsed_status(order_id, status_code), send>>,
                    value |-> <<notify_customer_status_change(send)>>]
         /\ UNCHANGED <<users, products, promocodes, statistics, user_data, chat,
                        now, thread_vars>>

update_product(ps, product_id, updates) ==
    LET i == get_product(ps, product_id)
    IN  IF i = 0 THEN ps ELSE [ps EXCEPT ![i] = DictUpdate(ps[i], updates)]

(* the "hide" / "show" button of a product in the admin menu *)
admin_toggle_product_callback(u, product_id, button) ==
    IF ~is_admin(u)
    THEN /\ chat' = [chat EXCEPT ![u].answer = "denied"]
         /\ UNCHANGED <<store_vars, user_data, now, pressed, thread_vars, ret>>
    ELSE /\ products' = update_product(products, product_id,
                                       [available |-> button # "hide"])
         /\ UNCHANGED <<orders, users, promocodes, statistics, user_data, chat,
                        now, pressed, thread_vars, ret>>

(* admin_edit_price_callback, the entry point of price_conv.  For an   *)
(* admin it stores admin_product_id and returns ADMIN_WAITING_PRICE;   *)
(* for anyone else it answers "access denied" and returns None, which  *)
(* starts no conversation.                                             *)
admin_edit_price_callback(u, product_id) ==
    IF ~is_admin(u)
    THEN /\ chat' = [chat EXCEPT ![u].answer = "denied"]
         /\ UNCHANGED <<store_vars, user_data, now, pressed, thread_vars, ret>>
    ELSE /\ get_product(products, product_id) # 0
         /\ user_data' = [user_data EXCEPT ![u].admin_product_id = product_id]
         /\ chat' = [chat EXCEPT ![u].waiting = @ \cup {"price"}]
         /\ UNCHANGED <<store_vars, now, pressed, thread_vars, ret>>

(* admin_edit_desc_callback, the entry point of desc_conv, built like *)
(* admin_edit_price_callback; it returns ADMIN_WAITING_DESC           *)
admin_edit_desc_callback(u, product_id) ==
    IF ~is_admin(u)
    THEN /\ chat' = [chat EXCEPT ![u].answer = "denied"]
         /\ UNCHANGED <<store_vars, user_data, now, pressed, thread_vars, ret>>
    ELSE /\ get_product(products, product_id) # 0
         /\ user_data' = [user_data EXCEPT ![u].admin_product_id = product_id]
         /\ chat' = [chat EXCEPT ![u].waiting = @ \cup {"desc"}]
         /\ UNCHANGED <<store_vars, now, pressed, thread_vars, ret>>

(* receive_admin_price handles a text only in the ADMIN_WAITING_PRICE   *)
(* state of price_conv; new_price is the int() of the text.  A price    *)
(* that is not positive keeps the conversation waiting.                 *)
receive_admin_price(u, new_price) ==
    /\ "price" \in chat[u].waiting
    /\ IF new_price <= 0
       THEN UNCHANGED <<products, chat>>
       ELSE /\ products' = IF user_data[u].admin_product_id # 0
                           THEN update_product(products, user_data[u].admin_product_id,
                                               [price |-> new_price])
                           ELSE products
            /\ chat' = [chat EXCEPT ![u].waiting = @ \ {"price"}]
    /\ UNCHANGED <<orders, users, promocodes, statistics, user_data, now,
                   pressed, thread_vars, ret>>

(* receive_admin_desc handles a text only in the ADMIN_WAITING_DESC state *)
(* of desc_conv, and only when price_conv, registered before it, is not   *)
(* waiting for the text itself                                            *)
receive_admin_desc(u, new_desc) ==
    /\ "desc" \in chat[u].waiting
    /\ "price" \notin chat[u].waiting
    /\ products' = IF user_data[u].admin_product_id # 0
                   THEN update_product(products, user_data[u].admin_product_id,
                                       [description |-> new_desc])
                   ELSE products
    /\ chat' = [chat EXCEPT ![u].waiting = @ \ {"desc"}]
    /\ UNCHANGED <<orders, users, promocodes, statistics, user_data, now,
                   pressed, thread_vars, ret>>

----------------------------------------------------------------------------
(* The bot: one customer going through cart, checkout, promo code and *)
(* payment, any number of times                                       *)

Customers  == {1}
InputTexts == {"sale10", "FIX500", "mega150", "NOPE"}

Next ==
    \/ Tick
    \/ \E u \in Customers, p \in 1..2 : cart_fits(u, MaxCart) /\ add_to_cart_callback(u, p)
    \/ \E u \in Customers : clear_cart_callback(u)
    \/ \E u \in Customers : checkout_callback(u)
    \/ \E u \in Customers, text \in InputTexts : receive_promocode(u, text)
    \/ \E u \in Customers : confirm_order_callback(u)
    \/ \E u \in Customers : payment_method_callback(u, "sent")

Spec == Init /\ [][Next]_vars

----------------------------------------------------------------------------
(* Two customers checking out with the same promo code, their handler *)
(* invocations interleaved                                             *)

NextSessions ==
    \/ \E u \in Users : start_command(u)
    \/ \E u \in Users : cart_fits(u, MaxCart) /\ add_to_cart_callback(u, 2)
    \/ \E u \in Users : checkout_callback(u)
    \/ \E u \in Users : receive_promocode(u, "sale10")
    \/ \E u \in Users : confirm_order_callback(u)
    \/ \E u \in Users : payment_method_callback(u, "sent")

SpecSessions == Init /\ [][NextSessions]_vars

----------------------------------------------------------------------------
(* Order lifecycle: a customer creates orders and cancels them, an admin *)
(* presses status buttons                                                *)

NextLifecycle ==
    \/ Tick
    \/ \E u \in Customers : cart_fits(u, MaxCart) /\ add_to_cart_callback(u, 2)
    \/ \E u \in Customers : checkout_callback(u)
    \/ \E u \in Customers : confirm_order_callback(u)
    \/ \E u \in Customers : payment_method_callback(u, "sent")
    \/ \E u \in Users, o \in 1..MaxOrders : cancel_order_callback(u, o)
    \/ \E u \in admin_ids, o \in 1..MaxOrders, s \in Statuses :
           set_order_status_callback(u, o, s, "sent")

SpecLifecycle == Init /\ [][NextLifecycle]_vars

(* Orders placed and moved through the statuses while the notifications *)
(* of the admin and of the customer are sent or fail.                   *)
NextNotify ==
    \/ \E u \in Customers : cart_fits(u, MaxCart) /\ add_to_cart_callback(u, 2)
    \/ \E u \in Customers : checkout_callback(u)
    \/ \E u \in Customers : confirm_order_callback(u)
    \/ \E u \in Customers, send \in SendOutcomes : payment_method_callback(u, send)
    \/ \E u \in admin_ids, o \in 1..MaxOrders, s \in Statuses, send \in SendOutcomes :
           set_order_status_callback(u, o, s, send)

SpecNotify == Init /\ [][NextNotify]_vars

----------------------------------------------------------------------------
(* The cart: one customer filling, changing, ordering and reordering a *)
(* cart while an admin hides products and changes prices                *)

MaxQuantity == 2      \* items (sum of quantities) the cart holds here

CartButtons == {"cart_minus", "cart_plus", "remove_from_cart"}
NewPrices   == {0, 1200}

NextCart ==
    \/ \E u \in Customers :
           \/ \E p \in 1..2 : product_callback(u, p)
           \/ \E b \in {"minus", "plus"} :
                  /\ user_data[u].current_quantity < MaxQuantity
                  /\ quantity_callback(u, b)
           \/ \E p \in 1..2 : cart_fits(u, MaxQuantity) /\ add_to_cart_callback(u, p)
           \/ \E b \in CartButtons, p \in 1..2 :
                  /\ b = "cart_plus" => cart_quantity(user_data[u].cart) < MaxQuantity
                  /\ cart_modify_callback(u, b, p)
           \/ clear_cart_callback(u)
           \/ checkout_callback(u)
           \/ confirm_order_callback(u)
           \/ orders = <<>> /\ payment_method_callback(u, "sent")
           \/ \E o \in 1..MaxOrders : reorder_callback(u, o)
    \/ \E a \in admin_ids, b \in {"hide", "show"} :
           admin_toggle_product_callback(a, 2, b)
    \/ \E a \in admin_ids : admin_edit_price_callback(a, 2)
    \/ \E a \in admin_ids, price \in NewPrices : receive_admin_price(a, price)

SpecCart == Init /\ [][NextCart]_vars

----------------------------------------------------------------------------
(* The admin buttons pressed by the admin and by a customer, while the *)
(* customer places orders                                               *)

NewDescriptions == {"fresh"}

(* the status buttons pressed here *)
PressedStatuses == {"accepted", "on_the_way"}

NextAdmin ==
    \/ \E u \in Customers : cart_fits(u, MaxCart) /\ add_to_cart_callback(u, 2)
    \/ \E u \in Customers : checkout_callback(u)
    \/ \E u \in Customers : confirm_order_callback(u)
    \/ \E u \in Customers : orders = <<>> /\ payment_method_callback(u, "sent")
    \/ \E u \in Users, o \in 1..MaxOrders, s \in PressedStatuses :
           set_order_status_callback(u, o, s, "sent")
    \/ \E u \in Users, b \in {"hide", "show"} :
           admin_toggle_product_callback(u, 2, b)
    \/ \E u \in Users : admin_edit_price_callback(u, 2)
    \/ \E u \in Users : admin_edit_desc_callback(u, 2)
    \/ \E u \in Users, price \in NewPrices : receive_admin_price(u, price)
    \/ \E u \in Users, text \in NewDescriptions : receive_admin_desc(u, text)

SpecAdmin == Init /\ [][NextAdmin]_vars

----------------------------------------------------------------------------
(* The quantity buttons: one customer and one product, with the buttons *)
(* of the product page and of the cart                                   *)

MaxLineQuantity == 100    \* items (sum of quantities) the cart holds here

NextQuantity ==
    \E u \in Customers :
        \/ product_callback(u, 2)
        \/ \E b \in {"minus", "plus"} : quantity_callback(u, b)
        \/ cart_fits(u, MaxLineQuantity) /\ add_to_cart_callback(u, 2)
        \/ \E b \in CartButtons :
               /\ b = "cart_plus"
                      => cart_quantity(user_data[u].cart) < MaxLineQuantity
               /\ cart_modify_callback(u, b, 2)

SpecQuantity == Init /\ [][NextQuantity]_vars

----------------------------------------------------------------------------
(* The store used directly: DataManager methods called one after another *)

MaxProducts == 3      \* products the store holds

DraftLine(price) == [product_id |-> 2, product_name |-> "set", price |-> price,
                     quantity |-> 1]

(* order_data values handed to create_order: totals of 1200 and of 50, *)
(* for the registered user 1 and for user 2, who has no user record     *)
DraftOrders ==
    { [user_id |-> u, items |-> <<DraftLine(s)>>, subtotal |-> s,
       delivery_cost |-> 0, discount |-> 0, promo_code |-> NoneStr,
       total |-> s] : u \in Users, s \in {50, 1200} }

(* product dicts handed to add_product; add_product sets the id *)
DraftProducts ==
    { [id |-> 0, name |-> "new", description |-> "new", price |-> 300, available |-> TRUE] }

(* products.yaml is written by hand: empty, or products with ids 1 and 3 *)
InitProductsById ==
    { <<>>,
      << [id |-> 1, name |-> "roll", description |-> "roll", price |-> 300,  available |-> TRUE],
         [id |-> 3, name |-> "set",  description |-> "set",  price |-> 1000, available |-> TRUE] >> }

InitStoreCalls ==
    /\ orders     = <<>>
    /\ users      = InitUsers
    /\ products   \in InitProductsById
    /\ promocodes = InitPromocodes
    /\ statistics = [total_orders |-> 0, total_revenue |-> 0]
    /\ user_data  = [u \in Users |-> EmptyUserData]
    /\ chat       = [u \in Users |-> InitChat]
    /\ now \in Times
    /\ pressed    = [o \in 1..(MaxOrders + 1) |-> "none"]
    /\ InitThreads

call_create_order(order_data) ==
    /\ Len(orders) < MaxOrders
    /\ SetStore(create_order(Store, order_data, now))
    /\ UNCHANGED <<user_data, chat, now, pressed, thread_vars, ret>>

call_add_product(product) ==
    /\ Len(products) < MaxProducts
    /\ products' = add_product(products, product)
    /\ UNCHANGED <<orders, users, promocodes, statistics, user_data, chat, now,
                   pressed, thread_vars, ret>>

call_update_order_status(order_id, status) ==
    /\ orders' = update_order_status(orders, order_id, status, now)
    /\ UNCHANGED <<users, products, promocodes, statistics, user_data, chat,
                   now, pressed, thread_vars, ret>>

NextStoreCalls ==
    \/ Tick
    \/ \E d \in DraftOrders : call_create_order(d)
    \/ \E p \in DraftProducts : call_add_product(p)
    \/ \E o \in 1..(MaxOrders + 1), s \in Statuses : call_update_order_status(o, s)

SpecStoreCalls == InitStoreCalls /\ [][NextStoreCalls]_vars

----------------------------------------------------------------------------
(* The promo code methods of DataManager called one after another *)

MaxPromos == 2        \* promo codes the registry holds
MaxUses   == 3        \* times one promo code is used

(* promocodes.yaml with one promo code SALE10 *)
InitPromoRegistries ==
    { << [code |-> "SALE10", discount_percent |-> 10, discount_fixed |-> 0,
          min_order |-> 500, expiry_date |-> e, max_uses |-> m,
          current_uses |-> 0, active |-> a] >> :
          e \in {1, 2}, m \in {NoneInt, 2}, a \in BOOLEAN }

(* promo_data handed to add_promocode *)
DraftPromos ==
    { [code |-> c, discount_percent |-> 0, discount_fixed |-> 500,
       min_order |-> 0, expiry_date |-> 9, max_uses |-> NoneInt,
       current_uses |-> 0, active |-> TRUE] : c \in {"sale10", "FIX500"} }

CheckCodes  == {"SALE10", "sale10", "FIX500", "NOPE"}
CheckTotals == {400, 1000}

InitPromoCalls ==
    /\ orders     = <<>>
    /\ users      = InitUsers
    /\ products   = InitProducts
    /\ promocodes \in InitPromoRegistries
    /\ statistics = [total_orders |-> 0, total_revenue |-> 0]
    /\ user_data  = [u \in Users |-> EmptyUserData]
    /\ chat       = [u \in Users |-> InitChat]
    /\ now \in Times
    /\ pressed    = [o \in 1..(MaxOrders + 1) |-> "none"]
    /\ InitThreads

call_add_promocode(promo_data) ==
    /\ Len(promocodes) < MaxPromos
    /\ promocodes' = add_promocode(promocodes, promo_data)
    /\ UNCHANGED <<orders, users, products, statistics, user_data, chat, now,
                   pressed, thread_vars, ret>>

call_update_promocode(code, updates) ==
    /\ promocodes' = update_promocode(promocodes, code, updates)
    /\ UNCHANGED <<orders, users, products, statistics, user_data, chat, now,
                   pressed, thread_vars, ret>>

call_use_promocode(code) ==
    /\ \A k \in 1..Len(promocodes) : promocodes[k].current_uses < MaxUses
    /\ promocodes' = use_promocode(promocodes, code)
    /\ UNCHANGED <<orders, users, products, statistics, user_data, chat, now,
                   pressed, thread_vars, ret>>

(* check_promocode returns the promo dict, <<promo>> here, or None, <<>> *)
call_check_promocode(code, order_total) ==
    /\ ret' = [fn    |-> "check_promocode",
               args  |-> <<code, order_total>>,
               value |-> LET i == check_promocode(promocodes, code,
                                                  order_total, now)
                         IN  IF i = 0 THEN <<>> ELSE <<promocodes[i]>>]
    /\ UNCHANGED <<store_vars, user_data, chat, now, pressed, thread_vars>>

NextPromoCalls ==
    \/ Tick
    \/ \E d \in DraftPromos : call_add_promocode(d)
    \/ \E c \in CheckCodes, a \in BOOLEAN : call_update_promocode(c, [active |-> a])
    \/ \E c \in CheckCodes : call_use_promocode(c)
    \/ \E c \in CheckCodes, t \in CheckTotals : call_check_promocode(c, t)

SpecPromoCalls == InitPromoCalls /\ [][NextPromoCalls]_vars

----------------------------------------------------------------------------
(* The pricing and validation functions called with arguments of all kinds *)

(* promo dicts: percentage promos, fixed-amount promos, one with neither *)
DiscountPromos ==
    { [code |-> "P", discount_percent |-> pf[1], discount_fixed |-> pf[2],
       min_order |-> 0, expiry_date |-> 9, max_uses |-> NoneInt,
       current_uses |-> 0, active |-> TRUE] :
          pf \in {<<10, 0>>, <<25, 0>>, <<150, 0>>, <<0, 500>>, <<0, 1000>>,
                  <<0, 0>>} }

OrderTotals == {0, 500, 1000, 1500}

CartLine(product_id, price, quantity) ==
    [product_id |-> product_id, product_name |-> "p", price |-> price,
     quantity |-> quantity]

ValidatedCarts ==
    { <<>>, <<CartLine(1, 300, 1)>>, <<CartLine(2, 1000, 1)>>,
      <<CartLine(1, 300, 2), CartLine(2, 1000, 1)>> }

MinOrderAmounts == {0, 500}

(* delivery.working_hours: 'HH:MM' texts as <<HH, MM>>; 25:00 and 09:75 *)
(* are texts strptime rejects                                           *)
HoursConfigs ==
    { [start |-> <<10, 0>>, end |-> <<23, 0>>],
      [start |-> <<12, 0>>, end |-> <<23, 30>>],
      [start |-> <<22, 0>>, end |-> <<2, 0>>],
      [start |-> <<13, 0>>, end |-> <<12, 0>>],
      [start |-> <<25, 0>>, end |-> <<23, 0>>],
      [start |-> <<10, 0>>, end |-> <<9, 75>>] }

call_calculate_discount(promo, order_total) ==
    /\ ret' = [fn    |-> "calculate_discount",
               args  |-> <<promo, order_total>>,
               value |-> <<calculate_discount(promo, order_total)>>]
    /\ UNCHANGED <<store_vars, user_data, chat, now, pressed, thread_vars>>

(* validate_order returns (is_valid, error_message); value is the kind of *)
(* the message, "ok" for (True, None); the time it ran at is kept in args  *)
call_validate_order(cart, min_order, hours) ==
    /\ ret' = [fn    |-> "validate_order",
               args  |-> <<cart, min_order, hours, now>>,
               value |-> <<validate_order(cart, min_order, hours, now)>>]
    /\ UNCHANGED <<store_vars, user_data, chat, now, pressed, thread_vars>>

call_is_order_within_working_hours(hours) ==
    /\ ret' = [fn    |-> "is_order_within_working_hours",
               args  |-> <<hours, now>>,
               value |-> <<is_order_within_working_hours(hours, now)>>]
    /\ UNCHANGED <<store_vars, user_data, chat, now, pressed, thread_vars>>

(* carts, delivery costs and discounts calculate_order_totals is called with *)
TotalsCarts == ValidatedCarts \cup { <<CartLine(1, 300, 2)>> }

DeliveryCosts == {0, 200}

Discounts == {0, 150, 2000}

call_calculate_order_totals(cart, delivery_cost, discount) ==
    /\ ret' = [fn    |-> "calculate_order_totals",
               args  |-> <<cart, delivery_cost, discount>>,
               value |-> <<calculate_order_totals(cart, delivery_cost, discount)>>]
    /\ UNCHANGED <<store_vars, user_data, chat, now, pressed, thread_vars>>

NextPricing ==
    \/ Tick
    \/ \E c \in TotalsCarts, d \in DeliveryCosts, x \in Discounts :
           call_calculate_order_totals(c, d, x)
    \/ \E p \in DiscountPromos, t \in OrderTotals : call_calculate_discount(p, t)
    \/ \E c \in ValidatedCarts, m \in MinOrderAmounts, h \in HoursConfigs :
           call_validate_order(c, m, h)
    \/ \E h \in HoursConfigs : call_is_order_within_working_hours(h)

SpecPricing == Init /\ [][NextPricing]_vars

----------------------------------------------------------------------------
(* DataManager called from two threads.  self.lock is taken inside         *)
(* _load_yaml and inside _save_yaml and released when each returns, so one *)
(* load or one save is one step, and the steps of two calls interleave.    *)

ThreadCalls ==
    { [NoCall EXCEPT !.op = "create_order", !.order_data = d] :
          d \in {o \in DraftOrders : o.user_id = 1 /\ o.total = 1200} }
    \cup { [NoCall EXCEPT !.op = "add_bonus_points", !.telegram_id = u,
                          !.points = 5] : u \in Users }
    \cup { [NoCall EXCEPT !.op = "update_user", !.telegram_id = 1,
                          !.updates = [phone |-> "+7"]] }

(* the telegram id the call of thread t works on *)
thread_user(t) ==
    IF call[t].op = "create_order" THEN call[t].order_data.user_id
    ELSE call[t].telegram_id

(* the method is entered: its first load or lookup comes next *)
thread_invoke(t, c) ==
    /\ pc[t] = "idle"
    /\ call' = [call EXCEPT ![t] = c]
    /\ loc'  = [loc EXCEPT ![t] =
                   [NoLocals EXCEPT !.updates = c.updates,
                                    !.phase = IF c.op = "create_order"
                                              THEN "total_orders" ELSE "none"]]
    /\ pc'   = [pc EXCEPT ![t] =
                   CASE c.op = "create_order"     -> "load_orders"
                     [] c.op = "add_bonus_points" -> "get_user"
                     [] c.op = "update_user"      -> "load_users"]
    /\ UNCHANGED <<store_vars, user_data, chat, now, pressed, ret>>

(* create_order: data = self._load_yaml('orders.yaml') *)
thread_load_orders(t) ==
    /\ pc[t] = "load_orders"
    /\ loc' = [loc EXCEPT ![t].data = orders]
    /\ pc'  = [pc EXCEPT ![t] = "save_orders"]
    /\ UNCHANGED <<store_vars, call, user_data, chat, now, pressed, ret>>

(* create_order: the id from the loaded list, append, _save_yaml *)
thread_save_orders(t) ==
    /\ pc[t] = "save_orders"
    /\ LET o == new_order(loc[t].data, call[t].order_data, now)
       IN  /\ orders' = Append(loc[t].data, o)
           /\ loc' = [loc EXCEPT ![t].order_id = o.id]
    /\ pc' = [pc EXCEPT ![t] = "get_user"]
    /\ UNCHANGED <<users, products, promocodes, statistics, call, user_data,
                   chat, now, pressed, ret>>

(* user = self.get_user(...) in create_order and in add_bonus_points, and *)
(* the updates dict built from that user for the update_user that follows *)
thread_get_user(t) ==
    /\ pc[t] = "get_user"
    /\ LET i == get_user(users, thread_user(t))
       IN  IF i = 0
           THEN /\ pc' = [pc EXCEPT ![t] = IF call[t].op = "create_order"
                                           THEN "load_settings" ELSE "done"]
                /\ loc' = loc
           ELSE /\ pc' = [pc EXCEPT ![t] = "load_users"]
                /\ loc' = [loc EXCEPT ![t].updates =
                              IF loc[t].phase = "total_orders"
                              THEN [total_orders |-> users[i].total_orders + 1]
                              ELSE [bonus_points |->
                                       users[i].bonus_points +
                                       (IF call[t].op = "create_order"
                                        THEN IntHundredth(call[t].order_data.total)
                                        ELSE call[t].points)]]
    /\ UNCHANGED <<store_vars, call, user_data, chat, now, pressed, ret>>

(* update_user: data = self._load_yaml('users.yaml') *)
thread_load_users(t) ==
    /\ pc[t] = "load_users"
    /\ loc' = [loc EXCEPT ![t].data = users]
    /\ pc'  = [pc EXCEPT ![t] = "save_users"]
    /\ UNCHANGED <<store_vars, call, user_data, chat, now, pressed, ret>>

(* update_user: user.update(updates) on the loaded list, _save_yaml; then *)
(* the caller goes on                                                     *)
thread_save_users(t) ==
    /\ pc[t] = "save_users"
    /\ users' = update_user(loc[t].data, thread_user(t), loc[t].updates)
    /\ LET bonus == IntHundredth(call[t].order_data.total)
       IN  IF call[t].op = "create_order"
           THEN IF loc[t].phase = "total_orders" /\ bonus > 0
                THEN /\ pc'  = [pc EXCEPT ![t] = "get_user"]
                     /\ loc' = [loc EXCEPT ![t].phase = "bonus"]
                ELSE /\ pc'  = [pc EXCEPT ![t] = "load_settings"]
                     /\ loc' = loc
           ELSE /\ pc'  = [pc EXCEPT ![t] = "done"]
                /\ loc' = loc
    /\ UNCHANGED <<orders, products, promocodes, statistics, call, user_data,
                   chat, now, pressed, ret>>

(* _update_statistics: settings = self.get_settings() *)
thread_load_settings(t) ==
    /\ pc[t] = "load_settings"
    /\ loc' = [loc EXCEPT ![t].settings = statistics]
    /\ pc'  = [pc EXCEPT ![t] = "save_settings"]
    /\ UNCHANGED <<store_vars, call, user_data, chat, now, pressed, ret>>

(* _update_statistics: the new statistics, _save_yaml; create_order returns *)
thread_save_settings(t) ==
    /\ pc[t] = "save_settings"
    /\ statistics' = update_statistics(loc[t].settings, call[t].order_data.total)
    /\ pc' = [pc EXCEPT ![t] = "done"]
    /\ UNCHANGED <<orders, users, products, promocodes, call, loc, user_data,
                   chat, now, pressed, ret>>

NextThreads ==
    \E t \in Threads :
        \/ \E c \in ThreadCalls : thread_invoke(t, c)
        \/ thread_load_orders(t)
        \/ thread_save_orders(t)
        \/ thread_get_user(t)
        \/ thread_load_users(t)
        \/ thread_save_users(t)
        \/ thread_load_settings(t)
        \/ thread_save_settings(t)

SpecThreads == Init /\ [][NextThreads]_vars

----------------------------------------------------------------------------
(* Properties *)

OrderIdx == 1..Len(orders)
PromoIdx == 1..Len(promocodes)

(* C1: a promo code whose max_uses is set never has current_uses above *)
(* max_uses, however the sessions that apply it and pay interleave.     *)
C1_PromoUsesWithinCap ==
    \A k \in PromoIdx :
        promocodes[k].max_uses # NoneInt
            => promocodes[k].current_uses <= promocodes[k].max_uses

(* C2: the status of every persisted order is one of the six statuses. *)
C2_StatusClosedSet ==
    \A i \in OrderIdx : orders[i].status \in Statuses

(* C3: the total of every persisted order is not negative. *)
C3_TotalNonNegative ==
    \A i \in OrderIdx : orders[i].total >= 0

(* C4: every persisted order has                                        *)
(* total = max(0, subtotal + delivery_cost - discount) over its fields. *)
C4_TotalFormula ==
    \A i \in OrderIdx :
        orders[i].total =
            IF orders[i].subtotal + orders[i].delivery_cost - orders[i].discount > 0
            THEN orders[i].subtotal + orders[i].delivery_cost - orders[i].discount
            ELSE 0

Terminal == {"cancelled", "delivered"}

(* C5, as claimed: once an order is cancelled or delivered, no handler *)
(* invocation (customer or admin) changes its status again.            *)
C5_TerminalStatusFinal ==
    [][\A i \in OrderIdx :
           orders[i].status \in Terminal => orders'[i].status = orders[i].status]_vars

(* C5, amended: once an order is cancelled or delivered, no customer     *)
(* cancellation (cancel_order_callback) changes the status of that order; *)
(* an admin's set_order_status_callback may still overwrite it.           *)
C5_TerminalStatusFinalForCustomer ==
    [][(\E u \in Users, o \in 1..MaxOrders : cancel_order_callback(u, o))
         => \A i \in OrderIdx :
                orders[i].status \in Terminal
                    => orders'[i].status = orders[i].status]_vars

(* one order delivered by the admin, another cancelled by its customer *)
C5_Witness ==
    \E i, j \in OrderIdx :
        /\ orders[i].status = "delivered"
        /\ orders[j].status = "cancelled"
        /\ pressed[orders[j].id] = "none"

(* the order is on the way, delivered or cancelled: by its stored status *)
(* or by the status button the admin pressed for it last                 *)
NotCancellable(o) ==
    \/ o.status \in {"on_the_way", "delivered", "cancelled"}
    \/ pressed[o.id] \in {"on_the_way", "delivered", "cancelled"}

(* C6: a customer cancellation of an order that is on the way, delivered *)
(* or cancelled (also when an admin button brought it there) is rejected *)
(* and leaves the status as it is; for an order in new, accepted or      *)
(* preparing it sets the status to cancelled.                            *)
C6_CancelRule ==
    [][\A u \in Users, i \in OrderIdx :
           cancel_order_callback(u, orders[i].id)
               => /\ ~NotCancellable(orders[i])
                  /\ orders[i].status \in {"new", "accepted", "preparing"}
                  /\ orders'[i].status = "cancelled"]_vars

(* C8: every persisted order was created inside the working hours. *)
C8_OrdersWithinWorkingHours ==
    \A i \in OrderIdx :
        is_order_within_working_hours(working_hours, orders[i].created_at)

(* C10: a step that creates an order with a promo code raises the        *)
(* current_uses of that code by exactly 1 and of no other code; a step   *)
(* that creates an order without promo code, and every step that creates *)
(* no order, leaves every current_uses as it is.                         *)
C10_PromoUsedOncePerOrder ==
    [][LET n       == Len(orders)
           created == Len(orders') = n + 1
           code    == orders'[n + 1].promo_code
           used    == IF created /\ code # NoneStr
                      THEN get_promocode(promocodes, code) ELSE 0
       IN  /\ created /\ code # NoneStr => used # 0
           /\ \A k \in PromoIdx :
                  promocodes'[k].current_uses =
                      promocodes[k].current_uses + (IF k = used THEN 1 ELSE 0)]_vars

(* an order that carries a promo code was created and the code counted *)
C10_Witness ==
    \E i \in OrderIdx, k \in PromoIdx :
        /\ orders[i].promo_code = promocodes[k].code
        /\ promocodes[k].current_uses = 1


(* the result of one whole DataManager call c on the store st at time t *)
whole_call(st, c, t) ==
    CASE c.op = "create_order" ->
             create_order(st, c.order_data, t)
      [] c.op = "add_bonus_points" ->
             [st EXCEPT !.users = add_bonus_points(@, c.telegram_id, c.points)]
      [] c.op = "update_user" ->
             [st EXCEPT !.users = update_user(@, c.telegram_id, c.updates)]

StoreBeforeCalls ==
    [orders |-> <<>>, users |-> InitUsers, products |-> InitProducts,
     promocodes |-> InitPromocodes,
     statistics |-> [total_orders |-> 0, total_revenue |-> 0]]

(* the store after the call of thread a as a whole, then that of thread b *)
SerialStore(a, b) ==
    whole_call(whole_call(StoreBeforeCalls, call[a], now), call[b], now)

(* C7: when both threads have returned from their DataManager calls, the *)
(* store is the one that running the two calls one after the other, in   *)
(* one of the two orders, leaves, and two create_order calls returned    *)
(* different order ids.                                                  *)
C7_CallsSerializable ==
    (\A t \in Threads : pc[t] = "done")
        => /\ Store \in {SerialStore(1, 2), SerialStore(2, 1)}
           /\ (\A t \in Threads : call[t].op = "create_order")
                  => loc[1].order_id # loc[2].order_id

ProductIdx == 1..Len(products)

(* C9: a step that appends an order gives it id 1 when there was no      *)
(* order and 1 + the largest id otherwise, and status new; a step that   *)
(* appends a product gives it id 1 when there was no product and 1 + the *)
(* largest id otherwise; after every step the ids of the orders, and of  *)
(* the products, increase strictly in creation order (so are distinct).  *)
C9_IdsIncrease ==
    [][/\ Len(orders') = Len(orders) + 1
            => LET o == orders'[Len(orders')]
               IN  /\ o.id = IF orders = <<>> THEN 1
                             ELSE 1 + MaxOf({orders[i].id : i \in OrderIdx}, 0)
                   /\ o.status = "new"
       /\ Len(products') = Len(products) + 1
            => products'[Len(products')].id =
                   IF products = <<>> THEN 1
                   ELSE 1 + MaxOf({products[i].id : i \in ProductIdx}, 0)
       /\ \A i, j \in 1..Len(orders') :
              i < j => orders'[i].id < orders'[j].id
       /\ \A i, j \in 1..Len(products') :
              i < j => products'[i].id < products'[j].id]_vars

(* two orders created, and a product added to products with ids 1 and 3 *)
C9_Witness ==
    /\ Len(orders) = 2
    /\ orders[2].id = 2
    /\ Len(products) = 3
    /\ products[2].id = 3
    /\ products[3].id = 4

UserIdx == 1..Len(users)

(* C11: create_order for an order with a total T >= 0 whose user has a    *)
(* user record raises the bonus_points of that user by exactly T div 100  *)
(* (so by nothing when that is 0), and no step lowers the bonus_points of *)
(* any user.                                                              *)
C11_BonusPoints ==
    [][/\ \A k \in UserIdx : users'[k].bonus_points >= users[k].bonus_points
       /\ \A d \in DraftOrders :
              LET k == get_user(users, d.user_id)
              IN  call_create_order(d) /\ k # 0 /\ d.total >= 0
                      => users'[k].bonus_points =
                             users[k].bonus_points + (d.total \div 100)]_vars

(* user 1 has the 12 points of an order of 1200 and none of an order of 50 *)
C11_Witness ==
    /\ Len(orders) = 2
    /\ \A i \in OrderIdx : orders[i].user_id = 1
    /\ \E i, j \in OrderIdx : orders[i].total = 1200 /\ orders[j].total = 50
    /\ users[get_user(users, 1)].bonus_points = 12

(* C12: an order has a delivered_at exactly when it had one before the    *)
(* step or the step is update_order_status setting it to delivered (so,   *)
(* from creation on, exactly when it was set to delivered at some earlier *)
(* point); an update_order_status of any order with another status leaves *)
(* delivered_at as it is; a created order has none.                        *)
C12_DeliveredAt ==
    [][/\ \A i \in OrderIdx :
              /\ orders'[i].delivered_at # NoneInt
                     <=> \/ orders[i].delivered_at # NoneInt
                         \/ orders' = update_order_status(orders, orders[i].id,
                                                           "delivered", now)
              /\ \A j \in OrderIdx, s \in Statuses \ {"delivered"} :
                     orders' = update_order_status(orders, orders[j].id, s, now)
                         => orders'[i].delivered_at = orders[i].delivered_at
       /\ Len(orders') = Len(orders) + 1
              => orders'[Len(orders')].delivered_at = NoneInt]_vars

(* an order delivered earlier and moved to another status afterwards, *)
(* still with the time of its delivery                                *)
C12_Witness ==
    \E i \in OrderIdx :
        /\ orders[i].status = "accepted"
        /\ orders[i].delivered_at # NoneInt
        /\ orders[i].delivered_at < now

(* C13: after every step every line of every cart has a quantity of at  *)
(* least 1, and a "cart_minus" on a line of quantity 1 leaves no line of *)
(* that product in the cart.                                             *)
C13_CartQuantityPositive ==
    [][\A u \in Users :
           /\ \A k \in 1..Len(user_data'[u].cart) :
                  user_data'[u].cart[k].quantity >= 1
           /\ \A k \in 1..Len(user_data[u].cart) :
                  LET item == user_data[u].cart[k]
                  IN  /\ item.quantity = 1
                      /\ cart_modify_callback(u, "cart_minus", item.product_id)
                      => \A j \in 1..Len(user_data'[u].cart) :
                             user_data'[u].cart[j].product_id # item.product_id]_vars

(* a cart of one line of quantity 1 while the quantity to add is 2, with *)
(* an order to reorder from                                             *)
C13_Witness ==
    \E u \in Customers :
        /\ Len(user_data[u].cart) = 1
        /\ user_data[u].cart[1].quantity = 1
        /\ user_data[u].current_quantity = 2
        /\ orders # <<>>

Reorderable(item) ==
    \E j \in 1..Len(products) :
        products[j].id = item.product_id /\ products[j].available

(* C15: reorder_callback on an existing order leaves as cart exactly the *)
(* lines of the order whose product exists and is available, in the      *)
(* order of the lines, each with the quantity (and name) of the order    *)
(* line and the current price of the product; it answers with the        *)
(* no-available-items rejection exactly when no line qualifies.          *)
C15_ReorderCart ==
    [][\A u \in Customers, o \in 1..MaxOrders :
           reorder_callback(u, o) /\ get_order(orders, o) # 0
               => LET kept == SelectSeq(orders[get_order(orders, o)].items,
                                        Reorderable)
                  IN  /\ user_data'[u].cart =
                             [k \in 1..Len(kept) |->
                                 [kept[k] EXCEPT !.price =
                                     products[get_product(products,
                                                          kept[k].product_id)].price]]
                      /\ chat'[u].answer = "unavailable" <=> kept = <<>>]_vars

(* an order of two lines reordered after one product was hidden and the *)
(* price of the other was changed                                       *)
C15_Witness ==
    \E u \in Customers, i \in OrderIdx :
        /\ Len(orders[i].items) = 2
        /\ chat[u].answer = "added"
        /\ Len(user_data[u].cart) = 1
        /\ user_data[u].cart[1].price = 1200
        /\ \E k \in 1..2 :
               /\ orders[i].items[k].product_id = user_data[u].cart[1].product_id
               /\ orders[i].items[k].price = 1000

(* no two promo records have codes that are equal ignoring case *)
CodesUnique ==
    \A j, k \in PromoIdx :
        Upper(promocodes[j].code) = Upper(promocodes[k].code) => j = k

(* the promo record k may be applied to an order of order_total now: it  *)
(* is active, order_total reaches its min_order, today is not after its  *)
(* expiry date, and its uses are below max_uses when that is set         *)
Applicable(k, order_total) ==
    /\ promocodes[k].active
    /\ order_total >= promocodes[k].min_order
    /\ now \div 1440 <= promocodes[k].expiry_date
    /\ promocodes[k].max_uses # NoneInt
           => promocodes[k].current_uses < promocodes[k].max_uses

(* C16: with codes unique ignoring case, check_promocode(code, total)   *)
(* returns the promo with that code when it is applicable, and None in  *)
(* every other case.                                                    *)
C16_CheckPromocode ==
    [][\A c \in CheckCodes, t \in CheckTotals :
           call_check_promocode(c, t) /\ CodesUnique
               => LET k == get_promocode(promocodes, c)
                  IN  ret'.value = IF k # 0 /\ Applicable(k, t)
                                   THEN <<promocodes[k]>> ELSE <<>>]_vars

(* C17: no two promo records have codes that are equal ignoring case. *)
C17_CodesUniqueIgnoringCase == CodesUnique

(* C18: calculate_discount(promo, subtotal) is subtotal x percent / 100 *)
(* for a percentage promo, the smaller of fixed and subtotal for a      *)
(* fixed-amount promo, and 0 for a promo with neither.                  *)
C18_CalculateDiscount ==
    ret.fn = "calculate_discount"
        => LET promo    == ret.args[1]
               subtotal == ret.args[2]
               value    == ret.value[1]
           IN  /\ promo.discount_percent # 0
                      => value * 100 = subtotal * promo.discount_percent
               /\ promo.discount_percent = 0 /\ promo.discount_fixed # 0
                      => /\ value \in {promo.discount_fixed, subtotal}
                         /\ value <= promo.discount_fixed
                         /\ value <= subtotal
               /\ promo.discount_percent = 0 /\ promo.discount_fixed = 0
                      => value = 0

(* a fixed discount of 1000 on a subtotal of 500 gave 500 *)
C18_Witness ==
    /\ ret.fn = "calculate_discount"
    /\ ret.args[1].discount_fixed = 1000
    /\ ret.args[2] = 500
    /\ ret.value = <<500>>

(* 'HH:MM' is a time of day *)
IsTime(hm) == hm[1] \in 0..23 /\ hm[2] \in 0..59

Minutes(hm) == hm[1] * 60 + hm[2]

(* the time of day of moment t is inside the working hours; hours that *)
(* are no times of day count as always open                            *)
InsideHours(hours, t) ==
    IF ~IsTime(hours.start) \/ ~IsTime(hours.end) THEN TRUE
    ELSE IF Minutes(hours.start) <= Minutes(hours.end)
    THEN Minutes(hours.start) <= t % 1440 /\ t % 1440 <= Minutes(hours.end)
    ELSE t % 1440 >= Minutes(hours.start) \/ t % 1440 <= Minutes(hours.end)

C21_NotifyFailureHarmless ==
    [][/\ \A u \in admin_ids, o \in 1..MaxOrders, s \in Statuses, send \in SendOutcomes :
              set_order_status_callback(u, o, s, send)
                  => /\ orders'[get_order(orders, o)].status = parsed_status(o, s)
                     /\ ret'.value = <<"returned">>
       /\ \A u \in Users, send \in SendOutcomes :
              payment_method_callback(u, send)
                  => /\ Len(orders') = Len(orders) + 1
                     /\ ret'.value = <<"returned">>
       /\ \A i \in OrderIdx :
              i <= Len(orders') /\ orders'[i].id = orders[i].id]_vars

(* an order accepted by the admin although the notification of the *)
(* customer could not be sent                                      *)
C21_Witness ==
    /\ ret.fn = "notify_customer_status_change"
    /\ ret.args[3] = "raised"
    /\ \E i \in OrderIdx :
           /\ orders[i].id = ret.args[1]
           /\ orders[i].status = "accepted"

(* the fields of an order other than status and delivered_at *)
CreatedFields(o) ==
    [f \in {"id", "user_id", "items", "subtotal", "delivery_cost", "discount",
            "promo_code", "total", "created_at"} |-> o[f]]

(* C22: no step removes a stored order or changes any field of it other  *)
(* than status and delivered_at, whatever the customer does to the cart  *)
(* afterwards; update_order_status leaves every order with another id    *)
(* unchanged, changes only status and delivered_at of the order with the *)
(* given id, and changes nothing when no order has that id.              *)
C22_OrdersImmutable ==
    [][/\ Len(orders') >= Len(orders)
       /\ \A i \in 1..Len(orders) : CreatedFields(orders'[i]) = CreatedFields(orders[i])
       /\ \A order_id \in 0..(MaxOrders + 1), status \in Statuses :
              LET updated == update_order_status(orders, order_id, status, now)
              IN  /\ Len(updated) = Len(orders)
                  /\ \A i \in 1..Len(orders) :
                         /\ CreatedFields(updated[i]) = CreatedFields(orders[i])
                         /\ orders[i].id # order_id => updated[i] = orders[i]]_vars

(* two orders, one delivered and stamped, the other still new, while     *)
(* the customer has filled the cart again                                *)
C22_Witness ==
    /\ Len(orders) = 2
    /\ \E i, j \in 1..Len(orders) :
           /\ orders[i].status = "delivered"
           /\ orders[i].delivered_at # NoneInt
           /\ orders[j].status = "new"
           /\ orders[i].items # <<>>
           /\ user_data[orders[i].user_id].cart # <<>>

(* price times quantity, summed line by line from the end of the cart *)
RECURSIVE LinesSum(_)
LinesSum(cart) ==
    IF cart = <<>> THEN 0
    ELSE LinesSum(SubSeq(cart, 1, Len(cart) - 1))
             + cart[Len(cart)].price * cart[Len(cart)].quantity

(* C23: calculate_order_totals(cart, delivery_cost, discount) returns as *)
(* subtotal the sum of price times quantity over the cart, 0 for the     *)
(* empty cart, and as total subtotal + delivery_cost - discount, or 0    *)
(* when that is negative; one line of price 300 and quantity 2 with      *)
(* delivery 200 and no discount gives subtotal 600 and total 800.        *)
C23_OrderTotals ==
    ret.fn = "calculate_order_totals" =>
        LET cart          == ret.args[1]
            delivery_cost == ret.args[2]
            discount      == ret.args[3]
            totals        == ret.value[1]
        IN  /\ totals.subtotal = LinesSum(cart)
            /\ totals.total = MaxOf({0, LinesSum(cart) + delivery_cost - discount}, 0)
            /\ totals.total >= 0
            /\ (cart = <<CartLine(1, 300, 2)>> /\ delivery_cost = 200 /\ discount = 0)
                   => totals.subtotal = 600 /\ totals.total = 800

(* the totals of a cart of two lines whose discount exceeds subtotal and *)
(* delivery together                                                      *)
C23_Witness ==
    /\ ret.fn = "calculate_order_totals"
    /\ Len(ret.args[1]) = 2
    /\ ret.args[3] > LinesSum(ret.args[1]) + ret.args[2]
    /\ ret.value[1].total = 0

(* C24: every stored order has at least one line in items. *)
C24_OrderItemsNonEmpty ==
    \A i \in 1..Len(orders) : orders[i].items # <<>>

(* C25: the subtotal of every stored order is the sum of price times *)
(* quantity over the items of that order.                            *)
C25_SubtotalOfOwnItems ==
    \A i \in 1..Len(orders) : orders[i].subtotal = LinesSum(orders[i].items)

(* C26: every stored order that names a promo code carries the discount  *)
(* calculate_discount gives for that code on the subtotal of the order,  *)
(* and storing an order whose discount is 0 leaves current_uses of every *)
(* code as it was.                                                       *)
C26_PromoOnlyWithDiscount ==
    [][/\ \A i \in 1..Len(orders') :
              orders'[i].promo_code # NoneStr =>
                  LET k == get_promocode(promocodes', orders'[i].promo_code)
                  IN  /\ k # 0
                      /\ orders'[i].discount
                             = calculate_discount(promocodes'[k], orders'[i].subtotal)
       /\ (Len(orders') > Len(orders) /\ orders'[Len(orders')].discount = 0)
              => \A k \in 1..Len(promocodes) :
                     promocodes'[k].current_uses = promocodes[k].current_uses]_vars

(* C27: a reorder_callback that is rejected, because the order does not *)
(* exist or because none of its lines is available, leaves the cart of  *)
(* the user as it was.                                                  *)
C27_RejectedReorderKeepsCart ==
    [][\A u \in Users, o \in 1..MaxOrders :
           (reorder_callback(u, o) /\ chat'[u].answer \in {"not_found", "unavailable"})
               => user_data'[u].cart = user_data[u].cart]_vars

(* C28: cancel_order_callback pressed by user u on an order changes the *)
(* status only when u is the user_id of that order; pressed by anyone   *)
(* else it leaves the store as it was.                                  *)
C28_CancelOnlyOwnOrder ==
    [][\A u \in Users, o \in 1..MaxOrders :
           (/\ cancel_order_callback(u, o)
            /\ orders[get_order(orders, o)].user_id # u)
               => UNCHANGED store_vars]_vars

(* C29: total_orders of every user record is the number of stored orders *)
(* whose user_id is the telegram_id of that record.                      *)
C29_TotalOrdersCounted ==
    \A i \in UserIdx :
        users[i].total_orders
            = Cardinality({k \in 1..Len(orders) :
                               orders[k].user_id = users[i].telegram_id})

(* C30: when a user who is not an admin presses a status button, a hide *)
(* or show button, or an edit-price or edit-description button, every   *)
(* order keeps its status and every product its price, description and  *)
(* availability.                                                        *)
C30_AdminButtonsNeedAdmin ==
    [][\A u \in Users \ admin_ids :
           (\/ \E o \in 1..MaxOrders, s \in PressedStatuses :
                   set_order_status_callback(u, o, s, "sent")
            \/ \E b \in {"hide", "show"} : admin_toggle_product_callback(u, 2, b)
            \/ admin_edit_price_callback(u, 2)
            \/ admin_edit_desc_callback(u, 2))
               => /\ Len(orders') = Len(orders)
                  /\ \A i \in 1..Len(orders) : orders'[i].status = orders[i].status
                  /\ products' = products]_vars

(* a customer was denied an admin button while an order is still new and *)
(* the admin has changed a price, a description and an availability      *)
C30_Witness ==
    /\ \E u \in Users \ admin_ids : chat[u].answer = "denied"
    /\ \E i \in 1..Len(orders) : orders[i].status = "new"
    /\ \E i \in 1..Len(products) :
           /\ products[i].price # InitProducts[i].price
           /\ products[i].description # InitProducts[i].description
           /\ ~products[i].available

====
